---- MODULE Spec2Model ----
(***************************************************************************)
(* Build-time force-curve pipeline of rollup-plugin-force-curve.ts.        *)
(*                                                                         *)
(* Number representation.  The code works on IEEE doubles; the model works *)
(* on integers in fixed units:                                             *)
(*   displacement x : hundredths of a millimetre (0.01 mm, the quantize    *)
(*                    step used by getMetadata),                           *)
(*   force f        : tenths of a gram-force,                              *)
(*   a Point        : the pair <<x, f>> (Point = [number, number]).        *)
(* JavaScript's undefined is the empty tuple << >> where a Point is        *)
(* expected and the integer Undefined where a number is expected.          *)
(* Arithmetic is exact: the rounding error of doubles is not modelled, so  *)
(* values the code computes as equal up to rounding noise (an acceleration *)
(* of exactly zero, two equal distances) are equal here.                   *)
(***************************************************************************)
EXTENDS Integers, Sequences, FiniteSets, TLC

VARIABLES
    pc,          \* position of the operation under check
    points,      \* argument of partitionStrokes / findLocalMaxima / findLocalMinima
    strokes,     \* result of partitionStrokes: <<downstroke, upstroke>>
    maxima,      \* result of findLocalMaxima(points)
    minima,      \* result of findLocalMinima(points)
    downstroke,  \* argument of getMetadata
    accel,       \* the local `accel` of getMetadata
    bottomOutDisplacement,  \* the local of getMetadata
    metadata,    \* result of getMetadata: a record, or the raised error
    chosen,      \* <<tactileMax, tactileMin, bottomOut>> as line 259 reads them
    code, \* argument of parseCsv: the lines of the file, each a sequence of fields
    rows, \* result of parseCsv
    stroke, \* result of dedupePoints(simplifyPoints(p)) for a stroke p (load)
    switches, \* entries of the object handed to normalizeKeys, in iteration order
    transform, \* the transform handed to normalizeKeys
    curveFiles, \* result of normalizeKeys: the entries of the table, in insertion order
    warned, \* keys reported by console.warn, in order
    moduleIds, \* ids of the modules in the graph, in the order this.getModuleIds() yields them
    undiscovered, \* modules of the build that are not in the graph yet
    moduleMeta, \* ids of the modules whose meta.forceCurveMetadata is set
    cursor, \* position in moduleIds of the id the metadata load awaits
    forceCurveMetadata, \* the table built by the load of 'force-curve-metadata': its keys
    files, \* the files parameter of the URL: its comma separated parts
    paths, \* the array handed to the last call of fetchForceCurves: its identity and items
    cachedCurves, \* the module variable of fetchForceCurves
    forceCurvePromise, \* the module variable of fetchForceCurves: the promise's identity and outcome
    forceCurves, \* the table of loaders: result of normalizeKeys(import.meta.glob(...))
    renders, \* number of renders of the form so far
    tolerance, \* the tolerance handed to simplifyPoints, in thousandths
    twice  \* result of applying the same operation to its own result

vars == <<pc, points, strokes, maxima, minima, downstroke, accel,
          bottomOutDisplacement, metadata, chosen,
          code,
          rows,
          stroke,
          switches,
          transform,
          curveFiles,
          warned,
          moduleIds,
          undiscovered,
          moduleMeta,
          cursor,
          forceCurveMetadata,
          files,
          paths,
          cachedCurves,
          forceCurvePromise,
          forceCurves,
          renders,
          tolerance,
          twice>>

(***************************************************************************)
(* Generic helpers                                                         *)
(***************************************************************************)
Abs(a) == IF a < 0 THEN -a ELSE a

Sgn(a) == IF a < 0 THEN -1 ELSE IF a > 0 THEN 1 ELSE 0

MinOf(a, b) == IF a < b THEN a ELSE b

MaxOf(a, b) == IF a > b THEN a ELSE b

\* the elements of s at the positions from .. to that exist (1-based)
Slice(s, from, to) ==
    LET lo == MaxOf(1, from)
        hi == MinOf(Len(s), to)
    IN  [k \in 1..MaxOf(0, hi - lo + 1) |-> s[lo + k - 1]]

\* the number standing for a missing number (undefined, NaN)
Undefined == -(2^30)

\* a > b on numbers that may be undefined: any comparison with undefined is false
Gt(a, b) == a # Undefined /\ b # Undefined /\ a > b

ZERO == <<0, 0>>

(***************************************************************************)
(* d3-array maxIndex(values, accessor): index (0-based) of the first       *)
(* greatest value, -1 when there is none.                                  *)
(***************************************************************************)
maxIndex(vals) ==
    IF Len(vals) = 0 THEN -1
    ELSE LET m == CHOOSE v \in {vals[k] : k \in 1..Len(vals)} :
                      \A k \in 1..Len(vals) : vals[k] <= v
         IN  (CHOOSE i \in 1..Len(vals) :
                  vals[i] = m /\ \A k \in 1..(i - 1) : vals[k] # m) - 1

(***************************************************************************)
(* partitionStrokes                                                        *)
(***************************************************************************)
\* variant: splits at the last of the greatest displacements
partitionStrokesAtLastMax(p) ==
    LET xs == [k \in 1..Len(p) |-> p[k][1]]
        index == IF Len(p) = 0 THEN 0
                 ELSE CHOOSE i \in 1..Len(p) :
                          /\ \A k \in 1..Len(p) : xs[k] <= xs[i]
                          /\ \A k \in (i + 1)..Len(p) : xs[k] < xs[i]
    IN  <<Slice(p, 1, index - 1), Slice(p, index, Len(p))>>

\* variant: slice(0, index + 1), the split sample in both strokes
partitionStrokesInclusive(p) ==
    LET index == maxIndex([k \in 1..Len(p) |-> p[k][1]])
    IN  IF index >= 0
        THEN <<Slice(p, 1, index + 1), Slice(p, index + 1, Len(p))>>
        ELSE <<Slice(p, 1, Len(p) - 1), Slice(p, Len(p), Len(p))>>

partitionStrokes(p) ==
    LET index == maxIndex([k \in 1..Len(p) |-> p[k][1]])
    IN  IF index >= 0
        THEN <<Slice(p, 1, index), Slice(p, index + 1, Len(p))>>
        \* slice(0, -1) and slice(-1) of the empty array
        ELSE <<Slice(p, 1, Len(p) - 1), Slice(p, Len(p), Len(p))>>

(***************************************************************************)
(* findLocalMaxima / findLocalMinima: the loop over i = 0 .. length - 2,   *)
(* state = <<candidate, emitted>>.                                         *)
(***************************************************************************)
RECURSIVE MaximaLoop(_, _, _, _)
MaximaLoop(p, i, max, acc) ==
    IF i > Len(p) - 1 THEN acc
    ELSE IF Gt(p[i + 1][2], p[i][2])
         THEN MaximaLoop(p, i + 1, p[i + 1], acc)
         ELSE IF max # <<>> /\ Gt(p[i][2], p[i + 1][2])
              THEN MaximaLoop(p, i + 1, <<>>, Append(acc, max))
              ELSE MaximaLoop(p, i + 1, max, acc)

\* variant: a candidate is also taken on an equal force (`>=` for `>`)
RECURSIVE MaximaLoopNonStrict(_, _, _, _)
MaximaLoopNonStrict(p, i, max, acc) ==
    IF i > Len(p) - 1 THEN acc
    ELSE IF ~Gt(p[i][2], p[i + 1][2])
         THEN MaximaLoopNonStrict(p, i + 1, p[i + 1], acc)
         ELSE IF max # <<>>
              THEN MaximaLoopNonStrict(p, i + 1, <<>>, Append(acc, max))
              ELSE MaximaLoopNonStrict(p, i + 1, max, acc)

findLocalMaximaNonStrict(p) == MaximaLoopNonStrict(p, 1, <<>>, <<>>)

findLocalMaxima(p) == MaximaLoop(p, 1, <<>>, <<>>)

\* `forces[i + 1] < forces[i] && forces[i + 1]`: the second operand is falsy
\* for 0 (and for undefined / NaN)
Truthy(f) == f # 0 /\ f # Undefined

RECURSIVE MinimaLoop(_, _, _, _)
MinimaLoop(p, i, min, acc) ==
    IF i > Len(p) - 1 THEN acc
    ELSE IF Gt(p[i][2], p[i + 1][2]) /\ Truthy(p[i + 1][2])
         THEN MinimaLoop(p, i + 1, p[i + 1], acc)
         ELSE IF min # <<>> /\ Gt(p[i + 1][2], p[i][2])
              THEN MinimaLoop(p, i + 1, <<>>, Append(acc, min))
              ELSE MinimaLoop(p, i + 1, min, acc)

\* variant: a candidate still pending when the loop ends is emitted too
findLocalMinimaFlush(p) ==
    LET emitted == MinimaLoop(p, 1, <<>>, <<>>)
    IN  IF Len(p) >= 2 /\ Gt(p[Len(p) - 1][2], p[Len(p)][2]) /\ Truthy(p[Len(p)][2])
        THEN Append(emitted, p[Len(p)])
        ELSE emitted

findLocalMinima(p) == MinimaLoop(p, 1, <<>>, <<>>)

(***************************************************************************)
(* Distances of the polyline simplification (simplify-js, highestQuality). *)
(* Both coordinates are taken in thousandths of their unit (mm, and gf or  *)
(* gf/mm^2): x = 10 * hundredths, y as given by the caller.  The code      *)
(* compares squared distances; squares of these values do not fit TLC's    *)
(* 32-bit integers, so the model compares the distances                    *)
(* themselves, rounded down to a thousandth, which orders them alike.      *)
(***************************************************************************)
RECURSIVE Newton(_, _)
Newton(n, x) ==
    LET y == (x + n \div x) \div 2
    IN  IF y >= x THEN x ELSE Newton(n, y)

ISqrt(n) == IF n < 2 THEN n ELSE Newton(n, MinOf(n, 46340))

\* sqrt(a^2 + b^2) for a, b >= 0, a small (a displacement), b of any size
Hyp(a, b) ==
    IF b <= 40000 THEN ISqrt(a * a + b * b)
    ELSE b + (a * a) \div (2 * b)

\* sign of s + u * v, where u * v may exceed the integer range
SignSum(s, u, v) ==
    IF Abs(u) <= 40000 /\ Abs(v) <= 40000 THEN Sgn(s + u * v)
    ELSE IF u = 0 \/ v = 0 THEN Sgn(s)
    ELSE IF Abs(u) > Abs(s) \div Abs(v) THEN Sgn(u) * Sgn(v)
    ELSE IF Abs(s) % Abs(v) = 0 /\ Abs(u) = Abs(s) \div Abs(v)
         THEN Sgn(Sgn(s) + Sgn(u) * Sgn(v))
    ELSE Sgn(s)

\* getSqSegDist(p, p1, p2): distance from p to the segment p1-p2
\* (x in hundredths, y in thousandths; result in thousandths, -1 for NaN)
getSegDist(px, py, x1, y1, x2, y2) ==
    IF py = Undefined \/ y1 = Undefined THEN -1
    ELSE IF y2 = Undefined
         \* dy = NaN: t = NaN, neither `t > 1` nor `t > 0`
         THEN Hyp(10 * Abs(px - x1), Abs(py - y1))
    ELSE
    LET dx == x2 - x1
        dy == y2 - y1
        ex == px - x1
        ey == py - y1
        \* t > 0  <=>  ex*dx + ey*dy > 0 ;  t > 1  <=>  (ex-dx)*dx + (ey-dy)*dy > 0
        tPos == SignSum(100 * ex * dx, ey, dy) > 0
        tBig == SignSum(100 * (ex - dx) * dx, ey - dy, dy) > 0
    IN  IF dx = 0 /\ dy = 0 THEN Hyp(10 * Abs(ex), Abs(ey))
        ELSE IF tBig THEN Hyp(10 * Abs(px - x2), Abs(py - y2))
        ELSE IF tPos
             THEN LET c == Abs(ex * dy - ey * dx)
                      len == Hyp(10 * Abs(dx), Abs(dy))
                  IN  (c \div len) * 10 + ((c % len) * 10) \div len
        ELSE Hyp(10 * Abs(ex), Abs(ey))

\* the for loop of simplifyDPStep over i = lo .. hi: <<index, sqDist>> of the
\* first point at the greatest distance (the loop replaces index only on a
\* strictly greater distance); halved to keep the evaluation shallow
RECURSIVE DPScan(_, _, _, _, _, _)
DPScan(xs, ys, first, last, lo, hi) ==
    IF lo = hi
    THEN <<lo, getSegDist(xs[lo], ys[lo], xs[first], ys[first], xs[last], ys[last])>>
    ELSE LET mid == (lo + hi) \div 2
             left == DPScan(xs, ys, first, last, lo, mid)
             right == DPScan(xs, ys, first, last, mid + 1, hi)
         IN  IF right[2] > left[2] THEN right ELSE left

\* simplifyDPStep: the indices pushed to `simplified`, in order
RECURSIVE simplifyDPStep(_, _, _, _, _)
simplifyDPStep(xs, ys, first, last, tol) ==
    LET found == IF last - first < 2 THEN <<0, tol>>
                 ELSE DPScan(xs, ys, first, last, first + 1, last - 1)
        index == found[1]
    IN  IF found[2] > tol
        THEN (IF index - first > 1 THEN simplifyDPStep(xs, ys, first, index, tol) ELSE <<>>)
             \o <<index>>
             \o (IF last - index > 1 THEN simplifyDPStep(xs, ys, index, last, tol) ELSE <<>>)
        ELSE <<>>

\* variant: the last point is kept only when it is farther than the
\* tolerance from the point kept before it
simplifyRadialLast(p, ys, tol) ==
    IF Len(p) <= 2 THEN p
    ELSE LET xs == [k \in 1..Len(p) |-> p[k][1]]
             inner == <<1>> \o simplifyDPStep(xs, ys, 1, Len(p), tol)
             before == inner[Len(inner)]
             kept == IF Hyp(10 * Abs(xs[Len(p)] - xs[before]),
                            Abs(ys[Len(p)] - ys[before])) > tol
                     THEN inner \o <<Len(p)>> ELSE inner
         IN  [k \in 1..Len(kept) |-> p[kept[k]]]

\* simplify(points, tolerance, true): p the points, ys their y in thousandths,
\* tol the tolerance in thousandths
simplify(p, ys, tol) ==
    IF Len(p) <= 2 THEN p
    ELSE LET xs == [k \in 1..Len(p) |-> p[k][1]]
             kept == <<1>> \o simplifyDPStep(xs, ys, 1, Len(p), tol) \o <<Len(p)>>
         IN  [k \in 1..Len(kept) |-> p[kept[k]]]

(***************************************************************************)
(* simplifyPoints(points, tolerance) on force points: y = f / 10 gf, that  *)
(* is 100 * f thousandths.  tol is the tolerance in thousandths.           *)
(***************************************************************************)
simplifyPoints(p, tol) == simplify(p, [k \in 1..Len(p) |-> 100 * p[k][2]], tol)

(***************************************************************************)
(* d3 groups(points, p => p[0]) and mean: the distinct x in order of first *)
(* occurrence, each with the mean of its defined values (undefined when    *)
(* it has none).  The mean is rounded down to the unit of the values.      *)
(***************************************************************************)
RECURSIVE SumSeq(_)
SumSeq(s) == IF s = <<>> THEN 0 ELSE Head(s) + SumSeq(Tail(s))

mean(vals) ==
    LET defined == SelectSeq(vals, LAMBDA v : v # Undefined)
    IN  IF Len(defined) = 0 THEN Undefined ELSE SumSeq(defined) \div Len(defined)

groupKeys(p) ==
    LET first == SelectSeq([k \in 1..Len(p) |-> k],
                           LAMBDA k : \A j \in 1..(k - 1) : p[j][1] # p[k][1])
    IN  [k \in 1..Len(first) |-> p[first[k]][1]]

groupValues(p, x) ==
    LET at == SelectSeq([k \in 1..Len(p) |-> k], LAMBDA k : p[k][1] = x)
    IN  [k \in 1..Len(at) |-> p[at[k]][2]]

\* variant: only neighbouring points of the same x are merged
RECURSIVE dedupePointsAdjacent(_)
dedupePointsAdjacent(p) ==
    IF Len(p) = 0 THEN <<>>
    ELSE LET x == p[1][1]
             run == CHOOSE n \in 1..Len(p) :
                        /\ \A k \in 1..n : p[k][1] = x
                        /\ (n < Len(p) => p[n + 1][1] # x)
             m == mean([k \in 1..run |-> p[k][2]])
         IN  <<<<x, IF m = Undefined THEN 0 ELSE m>>>>
             \o dedupePointsAdjacent(SubSeq(p, run + 1, Len(p)))

\* variant: the last input point is appended to the merged points
dedupePointsPlusLast(p) ==
    LET keys == groupKeys(p)
        merged == [k \in 1..Len(keys) |->
                      LET m == mean(groupValues(p, keys[k]))
                      IN  <<keys[k], IF m = Undefined THEN 0 ELSE m>>]
    IN  IF Len(p) = 0 THEN merged ELSE Append(merged, p[Len(p)])

\* groups(...).map(([x, group]) => [x, mean(...) ?? 0])
dedupePoints(p) ==
    LET keys == groupKeys(p)
    IN  [k \in 1..Len(keys) |->
            LET m == mean(groupValues(p, keys[k]))
            IN  <<keys[k], IF m = Undefined THEN 0 ELSE m>>]

(***************************************************************************)
(* quantize(points, step): getMetadata passes the step 0.01 mm, one unit of *)
(* x, and range(start, stop + step / 2, step) is start, start + 1, .., stop.*)
(* The interpolated forces are rationals; they are kept exactly, as        *)
(* integers in units of 1 / (10 * forceScale(points)) gf, where            *)
(* forceScale(points) is the least factor that makes the force at every    *)
(* grid value of every segment an integer.                                 *)
(***************************************************************************)
RECURSIVE GCD(_, _)
GCD(a, b) == IF b = 0 THEN a ELSE GCD(b, a % b)

LCM(a, b) == (a \div GCD(a, b)) * b

\* the denominator of the slope of the segment points[i] .. points[i + 1]
slopeDenominator(p, i) ==
    LET dx == Abs(p[i + 1][1] - p[i][1])
        df == Abs(p[i + 1][2] - p[i][2])
    IN  IF dx = 0 THEN 1 ELSE dx \div GCD(dx, df)

RECURSIVE forceScaleUpTo(_, _)
forceScaleUpTo(p, i) ==
    IF i < 1 THEN 1 ELSE LCM(forceScaleUpTo(p, i - 1), slopeDenominator(p, i))

forceScale(p) == forceScaleUpTo(p, Len(p) - 1)

\* the force gained per unit of x between points[i] and points[i + 1], in
\* units of 1 / (10 * scale) gf
slope(p, i, scale) ==
    (scale \div slopeDenominator(p, i))
    * ((p[i + 1][2] - p[i][2])
       \div GCD(Abs(p[i + 1][1] - p[i][1]), Abs(p[i + 1][2] - p[i][2])))

\* interpolateNumber(a, b)(t) = a * (1 - t) + b * t with t = (x - x0) / (x1 - x0),
\* between points[i] and points[i + 1], in units of 1 / (10 * scale) gf
interpolate(p, i, x, scale, perUnit) ==
    IF p[i + 1][1] = p[i][1] THEN Undefined
    ELSE scale * p[i][2] + perUnit * (x - p[i][1])

\* the number of values x, x + step, .. of range(start, stop + step / 2, step)
\* from x on: those below stop + step / 2
gridLeft(x, stop, step) ==
    IF 2 * x >= 2 * stop + step THEN 0
    ELSE (2 * stop + step - 2 * x + 2 * step - 1) \div (2 * step)

\* the for loop from grid value x on, with the loop's i (1-based): i advances
\* while (i < points.length - 2 && x > points[i + 1][0]); the grid values up
\* to points[i + 1][0] are emitted at once, and so are all the values left
\* once i is at the last segment
RECURSIVE quantizeLoop(_, _, _, _, _, _)
quantizeLoop(p, x, stop, i, scale, step) ==
    IF gridLeft(x, stop, step) = 0 THEN <<>>
    ELSE IF i < Len(p) - 1 /\ x > p[i + 1][1]
         THEN quantizeLoop(p, x, stop, i + 1, scale, step)
         ELSE LET n == IF i < Len(p) - 1
                       THEN MinOf(gridLeft(x, stop, step), (p[i + 1][1] - x) \div step + 1)
                       ELSE gridLeft(x, stop, step)
                  perUnit == IF p[i + 1][1] = p[i][1] THEN 0 ELSE slope(p, i, scale)
              IN  [k \in 1..n |->
                      <<x + (k - 1) * step,
                        interpolate(p, i, x + (k - 1) * step, scale, perUnit)>>]
                  \o quantizeLoop(p, x + n * step, stop, i, scale, step)

\* quantize(points, step), step a whole number of units of x
quantize(p, step) ==
    IF Len(p) < 2 THEN [k \in 1..Len(p) |-> <<p[k][1], forceScale(p) * p[k][2]>>]
    ELSE quantizeLoop(p, p[1][1], p[Len(p)][1], 1, forceScale(p), step)

(***************************************************************************)
(* d3 blur(values, 0.1): three passes of                                   *)
(*   T[i] = (S[i] + 0.1 * (S[i-1] + S[i+1])) / 1.2   (indices clamped).    *)
(* The model keeps the numerator 10 * S[i] + S[i-1] + S[i+1] of each pass, *)
(* so blurred values are exact and carry the factor 12^3 = 1728.           *)
(***************************************************************************)
blurPass(S) ==
    [i \in 1..Len(S) |-> 10 * S[i] + S[MaxOf(1, i - 1)] + S[MinOf(Len(S), i + 1)]]

blur(values) ==
    IF Len(values) = 0 THEN values ELSE blurPass(blurPass(blurPass(values)))

(***************************************************************************)
(* getDerivative(points): result values carry the factor 1728 of blur and  *)
(* are per unit of x; the last point has the value undefined (result has   *)
(* one entry less than points).                                            *)
(***************************************************************************)
getDerivative(p) ==
    LET pts == dedupePoints(p)
        result == blur([k \in 1..(Len(pts) - 1) |->
                          (pts[k + 1][2] - pts[k][2]) \div (pts[k + 1][1] - pts[k][1])])
    IN  [k \in 1..Len(pts) |->
            <<pts[k][1], IF k <= Len(result) THEN result[k] ELSE Undefined>>]

\* floor(a * 15625 / d) for a, d >= 0 without leaving the integer range
scaleDown(a, d) ==
    LET r1 == (a % d) * 125
        r2 == (r1 % d) * 125
    IN  (a \div d) * 15625 + (r1 \div d) * 125 + r2 \div d

\* y of an acceleration value in thousandths of gf/mm^2:
\* a / (10 * scale * 1728 * 1728) gf per (0.01 mm)^2
\*   =  a * 15625 / (46656 * scale) thousandths
accelThousandths(a, scale) ==
    IF a = Undefined THEN Undefined
    ELSE Sgn(a) * scaleDown(Abs(a), 46656 * scale)

\* simplifyPoints(getDerivative(velocity), 0.1)
simplifyAccel(derivative, scale) ==
    simplify(derivative,
             [k \in 1..Len(derivative) |-> accelThousandths(derivative[k][2], scale)],
             100)

(***************************************************************************)
(* getMetadata                                                             *)
(***************************************************************************)
TACTILE_MIN_DISTANCE_FROM_BOTTOM_OUT == 50

\* the local `accel`: simplifyPoints(getDerivative(velocity), 0.1)
getAccel(d) ==
    LET simplified == quantize(simplifyPoints(d, 200), 1)
        velocity == getDerivative(simplified)
    IN  simplifyAccel(getDerivative(velocity), forceScale(simplifyPoints(d, 200)))

\* variant: the first local maximum of the acceleration for the last, .at(0)
getBottomOutDisplacementFirst(acc) ==
    LET peaks == findLocalMaxima(acc)
    IN  IF Len(peaks) = 0 THEN 0 ELSE peaks[1][1]

\* findLocalMaxima(accel).at(-1)?.[0] ?? 0
getBottomOutDisplacement(acc) ==
    LET peaks == findLocalMaxima(acc)
    IN  IF Len(peaks) = 0 THEN 0 ELSE peaks[Len(peaks)][1]

\* variant: the first sample of the downstroke, whatever the displacement
getBottomOutFirstSample(d, bod) == IF Len(d) = 0 THEN ZERO ELSE d[1]

\* downstroke.find((p) => p[0] >= bottomOutDisplacement) ?? ZERO
getBottomOut(d, bod) ==
    LET at == SelectSeq([k \in 1..Len(d) |-> k], LAMBDA k : d[k][1] >= bod)
    IN  IF Len(at) = 0 THEN ZERO ELSE d[at[1]]

\* variant: every local maximum of the downstroke, without the filter
tactileMaximaUnfiltered(d, bod) == findLocalMaxima(d)

\* findLocalMaxima(downstroke).filter((p) => p[0] < bottomOutDisplacement - 0.5)
tactileMaxima(d, bod) ==
    SelectSeq(findLocalMaxima(d),
              LAMBDA p : p[1] < bod - TACTILE_MIN_DISTANCE_FROM_BOTTOM_OUT)

\* maxElement(data, accessor) = data.at(maxIndex(data, accessor)); vals are the
\* accessor's values; data.at(-1) of an empty array is undefined
maxElement(data, vals) ==
    IF Len(data) = 0 THEN <<>> ELSE data[maxIndex(vals) + 1]

\* maxima.map((max) => [max, largestDifference])
maximaMinimaPairs(maxs, mins) ==
    [k \in 1..Len(maxs) |->
        LET max == maxs[k]
            minimaAfter == SelectSeq(mins, LAMBDA p : p[1] > max[1])
        IN  <<max, maxElement(minimaAfter,
                              [j \in 1..Len(minimaAfter) |-> max[2] - minimaAfter[j][2]])>>]

\* variant: the threshold without its cap of 5 gf
minTactileForceNoCap(bottomOutForce) == bottomOutForce

\* Math.min(bottomOutForce * 0.2, 5) gf, times 50 in the model's tenths of gf
minTactileForce(bottomOutForce) == MinOf(bottomOutForce, 250)

\* tactileMax[1] - tactileMin[1] >= minTactileForce(bottomOut[1])
isTactileOf(tactileMax, tactileMin, bottomOut) ==
    5 * (tactileMax[2] - tactileMin[2]) >= minTactileForce(bottomOut[2])

TypeError == [error |-> "TypeError"]

getMetadataWith(d, bod) ==
    LET bottomOut == getBottomOut(d, bod)
        prs == maximaMinimaPairs(tactileMaxima(d, bod), findLocalMinima(d))
    IN  \* the accessor pair[0][1] - pair[1][1] reads pair[1][1] of every pair
        IF \E k \in 1..Len(prs) : prs[k][2] = <<>> THEN TypeError
        ELSE LET best == maxElement(prs, [k \in 1..Len(prs) |-> prs[k][1][2] - prs[k][2][2]])
                 tactileMax == IF best = <<>> THEN ZERO ELSE best[1]
                 tactileMin == IF best = <<>> THEN ZERO ELSE best[2]
             IN  [bottomOut |-> bottomOut,
                  tactileMax |-> tactileMax,
                  tactileMin |-> tactileMin,
                  isTactile |-> isTactileOf(tactileMax, tactileMin, bottomOut)]


(***************************************************************************)
(* Inputs and initial values                                               *)
(***************************************************************************)
SeqsUpTo(S, n) == UNION {[1..k -> S] : k \in 0..n}

\* the value of a result that has not been computed yet
None == [pending |-> TRUE]

(***************************************************************************)
(* partitionStrokes applied to the rows of a file: up to MaxRows points    *)
(* with displacements 0 .. MaxX and two force values to tell apart points  *)
(* of equal displacement.                                                  *)
(***************************************************************************)
MaxRows == 4

MaxX == 2

Rows == SeqsUpTo((0..MaxX) \X {0, 1}, MaxRows)

InitPartition ==
    /\ pc = "partitionStrokes"
    /\ points \in Rows
    /\ strokes = None
    /\ maxima = None
    /\ minima = None
    /\ downstroke = <<>>
    /\ accel = None
    /\ bottomOutDisplacement = 0
    /\ metadata = None
    /\ chosen = <<>>
    /\ code = None
    /\ rows = None
    /\ stroke = None
    /\ switches = None
    /\ transform = None
    /\ curveFiles = None
    /\ warned = None
    /\ moduleIds = None
    /\ undiscovered = None
    /\ moduleMeta = None
    /\ cursor = None
    /\ forceCurveMetadata = None
    /\ files = None
    /\ paths = None
    /\ cachedCurves = None
    /\ forceCurvePromise = None
    /\ forceCurves = None
    /\ renders = None
    /\ tolerance = None
    /\ twice = None

PartitionStrokes ==
    /\ pc = "partitionStrokes"
    /\ strokes' = partitionStrokes(points)
    /\ pc' = "done"
    /\ UNCHANGED <<points, maxima, minima, downstroke, accel,
                   bottomOutDisplacement, metadata, chosen,
                   code,
                   rows,
                   stroke,
                   switches,
                   transform,
                   curveFiles,
                   warned,
                   moduleIds,
                   undiscovered,
                   moduleMeta,
                   cursor,
                   forceCurveMetadata,
                   files,
                   paths,
                   cachedCurves,
                   forceCurvePromise,
                   forceCurves,
                   renders,
                   tolerance,
                   twice>>

NextPartition == PartitionStrokes

SpecPartition == InitPartition /\ [][NextPartition]_vars

\* the displacements of a point sequence
Xs(p) == [k \in 1..Len(p) |-> p[k][1]]

\* C3 as stated: the sample with the maximum displacement is in both strokes,
\* the downstroke is every sample up to and including the split index and
\* its last point equals the first point of the upstroke.
C3_AsStated ==
    (pc = "done" /\ points # <<>>) =>
        LET index == maxIndex(Xs(points)) + 1
        IN  /\ strokes[1] = SubSeq(points, 1, index)
            /\ strokes[2] = SubSeq(points, index, Len(points))
            /\ strokes[1][Len(strokes[1])] = strokes[2][1]

\* C3 (amended): with i the first position of the greatest displacement, the
\* downstroke is every sample strictly before i and the upstroke every sample
\* from i onward, so the sample with the maximum displacement is the first
\* point of the upstroke and is not part of the downstroke by position.
C3_MaxSampleOnlyInUpstroke ==
    (pc = "done" /\ points # <<>>) =>
        \E i \in 1..Len(points) :
            /\ \A k \in 1..Len(points) : points[k][1] <= points[i][1]
            /\ \A k \in 1..(i - 1) : points[k][1] < points[i][1]
            /\ strokes[1] = SubSeq(points, 1, i - 1)
            /\ strokes[2] = SubSeq(points, i, Len(points))
            /\ strokes[2][1] = points[i]
            /\ Len(strokes[1]) = i - 1

\* the maximum displacement occurs twice, after two smaller ones
C3_Witness ==
    /\ pc = "done"
    /\ Len(points) = 4
    /\ Xs(points) = <<0, 1, 2, 2>>
    /\ Len(strokes[1]) = 2
    /\ Len(strokes[2]) = 2

\* C4: downstroke ++ upstroke is the input sequence, also for the empty and
\* the single-sample input.
C4_ConcatenationIsInput ==
    pc = "done" => strokes[1] \o strokes[2] = points

\* both strokes are non-empty
C4_Witness ==
    /\ pc = "done"
    /\ Len(strokes[1]) >= 1
    /\ Len(strokes[2]) >= 2
    /\ strokes[1] \o strokes[2] = points

(***************************************************************************)
(* findLocalMaxima and findLocalMinima applied to the same points, in the  *)
(* order of getMetadata: up to MaxSamples points of distinct displacement  *)
(* with forces -1 .. MaxForce.                                             *)
(***************************************************************************)
MaxSamples == 5

MaxForce == 4

SampleSeqs ==
    {[k \in 1..Len(fs) |-> <<k - 1, fs[k]>>] : fs \in SeqsUpTo((-1)..MaxForce, MaxSamples)}

InitExtrema ==
    /\ pc = "findLocalMaxima"
    /\ points \in SampleSeqs
    /\ strokes = None
    /\ maxima = None
    /\ minima = None
    /\ downstroke = <<>>
    /\ accel = None
    /\ bottomOutDisplacement = 0
    /\ metadata = None
    /\ chosen = <<>>
    /\ code = None
    /\ rows = None
    /\ stroke = None
    /\ switches = None
    /\ transform = None
    /\ curveFiles = None
    /\ warned = None
    /\ moduleIds = None
    /\ undiscovered = None
    /\ moduleMeta = None
    /\ cursor = None
    /\ forceCurveMetadata = None
    /\ files = None
    /\ paths = None
    /\ cachedCurves = None
    /\ forceCurvePromise = None
    /\ forceCurves = None
    /\ renders = None
    /\ tolerance = None
    /\ twice = None

FindLocalMaxima ==
    /\ pc = "findLocalMaxima"
    /\ maxima' = findLocalMaxima(points)
    /\ pc' = "findLocalMinima"
    /\ UNCHANGED <<points, strokes, minima, downstroke, accel,
                   bottomOutDisplacement, metadata, chosen,
                   code,
                   rows,
                   stroke,
                   switches,
                   transform,
                   curveFiles,
                   warned,
                   moduleIds,
                   undiscovered,
                   moduleMeta,
                   cursor,
                   forceCurveMetadata,
                   files,
                   paths,
                   cachedCurves,
                   forceCurvePromise,
                   forceCurves,
                   renders,
                   tolerance,
                   twice>>

FindLocalMinima ==
    /\ pc = "findLocalMinima"
    /\ minima' = findLocalMinima(points)
    /\ pc' = "done"
    /\ UNCHANGED <<points, strokes, maxima, downstroke, accel,
                   bottomOutDisplacement, metadata, chosen,
                   code,
                   rows,
                   stroke,
                   switches,
                   transform,
                   curveFiles,
                   warned,
                   moduleIds,
                   undiscovered,
                   moduleMeta,
                   cursor,
                   forceCurveMetadata,
                   files,
                   paths,
                   cachedCurves,
                   forceCurvePromise,
                   forceCurves,
                   renders,
                   tolerance,
                   twice>>

NextExtrema == FindLocalMaxima \/ FindLocalMinima

SpecExtrema == InitExtrema /\ [][NextExtrema]_vars

\* the forces of a point sequence
Forces(p) == [k \in 1..Len(p) |-> p[k][2]]

\* the points of p at the positions in S, in the order of p
PointsAt(p, S) ==
    LET at == SelectSeq([k \in 1..Len(p) |-> k], LAMBDA k : k \in S)
    IN  [k \in 1..Len(at) |-> p[at[k]]]

\* position j of p holds a force strictly greater than the one before it,
\* followed, after zero or more equal forces, by a strictly smaller one
IsLocalMaxAt(p, j) ==
    /\ j >= 2
    /\ Gt(p[j][2], p[j - 1][2])
    /\ \E m \in (j + 1)..Len(p) :
           /\ \A k \in j..(m - 1) : p[k][2] = p[j][2]
           /\ Gt(p[j][2], p[m][2])

\* the mirror image: a strict decrease before, a strict increase after
IsLocalMinAt(p, j) ==
    /\ j >= 2
    /\ Gt(p[j - 1][2], p[j][2])
    /\ \E m \in (j + 1)..Len(p) :
           /\ \A k \in j..(m - 1) : p[k][2] = p[j][2]
           /\ Gt(p[m][2], p[j][2])

LocalMaxima(p) == PointsAt(p, {j \in 1..Len(p) : IsLocalMaxAt(p, j)})

\* C5: findLocalMaxima emits, in input order, exactly the points that rise
\* strictly above their predecessor and are followed, after a plateau of equal
\* forces or none, by a strictly smaller force; on the forces 1, 3, 2, 4, 1
\* it emits the points of force 3 and 4 and findLocalMinima the one of force 2.
C5_MaximaCharacterized ==
    /\ pc \in {"findLocalMinima", "done"} => maxima = LocalMaxima(points)
    /\ (pc = "done" /\ Forces(points) = <<1, 3, 2, 4, 1>>) =>
           /\ Forces(maxima) = <<3, 4>>
           /\ Forces(minima) = <<2>>

\* the example: both outputs computed on the forces 1, 3, 2, 4, 1
C5_Witness ==
    /\ pc = "done"
    /\ Forces(points) = <<1, 3, 2, 4, 1>>
    /\ maxima = <<points[2], points[4]>>
    /\ minima = <<points[3]>>

\* a point sequence with every force negated
Negated(p) == [k \in 1..Len(p) |-> <<p[k][1], -p[k][2]>>]

\* C6 as stated: findLocalMinima(points) is findLocalMaxima of the points with
\* negated forces (negated back), for every sequence, force 0 included.
C6_MinimaMirrorMaxima ==
    pc = "done" => minima = Negated(findLocalMaxima(Negated(points)))

\* C7: both outputs are the input's points at some set of positions, in input
\* order, and that set holds neither the first nor the last position.
C7_InteriorSubsequences ==
    /\ pc \in {"findLocalMinima", "done"} =>
           \E S \in SUBSET (2..(Len(points) - 1)) : maxima = PointsAt(points, S)
    /\ pc = "done" =>
           \E S \in SUBSET (2..(Len(points) - 1)) : minima = PointsAt(points, S)

\* the force falls at the start and rises at the end, or rises at the start
\* and falls at the end, and both outputs are non-empty
C7_Witness ==
    /\ pc = "done"
    /\ Len(points) = 5
    /\ maxima # <<>>
    /\ minima # <<>>
    /\ \/ points[1][2] > points[2][2] /\ points[5][2] > points[4][2]
       \/ points[1][2] < points[2][2] /\ points[5][2] < points[4][2]

(***************************************************************************)
(* getMetadata applied to a downstroke as load hands it over: the result   *)
(* of dedupePoints(simplifyPoints(p)), here up to MaxPoints samples 0.3 mm *)
(* apart with forces of 0, 3 or 6 gf, and one longer downstroke with a     *)
(* tactile bump and a steep rise at the end of travel.                     *)
(***************************************************************************)
MaxPoints == 5

ForceLevels == {0, 30, 60}

DownstrokeInputs ==
    {d \in {[k \in 1..Len(fs) |-> <<30 * (k - 1), fs[k]>>] :
                fs \in SeqsUpTo(ForceLevels, MaxPoints)} :
        dedupePoints(simplifyPoints(d, 10)) = d}

\* the downstroke (0,0), (0.5,30), (1.0,20), (1.5,25), (2.0,80), (2.2,82),
\* (2.4,78), which dedupePoints(simplifyPoints(p)) leaves as it is
ScenarioDownstroke ==
    <<<<0, 0>>, <<50, 300>>, <<100, 200>>, <<150, 250>>, <<200, 800>>,
      <<220, 820>>, <<240, 780>>>>

InitMeta ==
    /\ pc = "getMetadata"
    /\ downstroke \in DownstrokeInputs \cup {ScenarioDownstroke}
    /\ accel = None
    /\ bottomOutDisplacement = 0
    /\ metadata = None
    /\ points = <<>>
    /\ strokes = None
    /\ maxima = None
    /\ minima = None
    /\ chosen = <<>>
    /\ code = None
    /\ rows = None
    /\ stroke = None
    /\ switches = None
    /\ transform = None
    /\ curveFiles = None
    /\ warned = None
    /\ moduleIds = None
    /\ undiscovered = None
    /\ moduleMeta = None
    /\ cursor = None
    /\ forceCurveMetadata = None
    /\ files = None
    /\ paths = None
    /\ cachedCurves = None
    /\ forceCurvePromise = None
    /\ forceCurves = None
    /\ renders = None
    /\ tolerance = None
    /\ twice = None

GetMetadata ==
    /\ pc = "getMetadata"
    /\ accel' = getAccel(downstroke)
    /\ bottomOutDisplacement' = getBottomOutDisplacement(accel')
    /\ metadata' = getMetadataWith(downstroke, bottomOutDisplacement')
    /\ pc' = "done"
    /\ UNCHANGED <<points, strokes, maxima, minima, downstroke, chosen,
                   code,
                   rows,
                   stroke,
                   switches,
                   transform,
                   curveFiles,
                   warned,
                   moduleIds,
                   undiscovered,
                   moduleMeta,
                   cursor,
                   forceCurveMetadata,
                   files,
                   paths,
                   cachedCurves,
                   forceCurvePromise,
                   forceCurves,
                   renders,
                   tolerance,
                   twice>>

NextMeta == GetMetadata

SpecMeta == InitMeta /\ [][NextMeta]_vars

\* C1 as stated: getMetadata returns a record and never raises, whatever the
\* downstroke: empty, without extremum, or with a qualifying local maximum
\* that has no local minimum after it.
C1_NeverRaises ==
    pc = "done" => metadata # TypeError

\* C2 as stated: when the result is the fallback tactileMax = tactileMin =
\* (0, 0), isTactile is false whatever the force of bottomOut is.
C2_FallbackIsNotTactile ==
    (/\ pc = "done"
     /\ metadata # TypeError
     /\ metadata.tactileMax = ZERO
     /\ metadata.tactileMin = ZERO) => metadata.isTactile = FALSE

\* the pairs <<i, j>> of positions of d where d[i] is a local maximum before
\* bod - 0.5 mm and d[j] a local minimum after d[i]
ValidPairs(d, bod) ==
    {pr \in (1..Len(d)) \X (1..Len(d)) :
        /\ IsLocalMaxAt(d, pr[1])
        /\ d[pr[1]][1] < bod - TACTILE_MIN_DISTANCE_FROM_BOTTOM_OUT
        /\ IsLocalMinAt(d, pr[2])
        /\ d[pr[2]][1] > d[pr[1]][1]}

\* C8 as stated: when a valid pair exists, the returned tactileMax and
\* tactileMin are a valid pair and no valid pair has a greater difference
\* max.force - min.force.
C8_PairMaximizesDifference ==
    (pc = "done" /\ ValidPairs(downstroke, bottomOutDisplacement) # {}) =>
        /\ metadata # TypeError
        /\ \E pr \in ValidPairs(downstroke, bottomOutDisplacement) :
               /\ metadata.tactileMax = downstroke[pr[1]]
               /\ metadata.tactileMin = downstroke[pr[2]]
        /\ \A pr \in ValidPairs(downstroke, bottomOutDisplacement) :
               metadata.tactileMax[2] - metadata.tactileMin[2]
                   >= downstroke[pr[1]][2] - downstroke[pr[2]][2]

\* the positions of the local maxima of a point sequence
PeakPositions(p) == {j \in 1..Len(p) : IsLocalMaxAt(p, j)}

\* the greatest / smallest element of a non-empty set of integers
SetMax(S) == CHOOSE m \in S : \A k \in S : k <= m

SetMin(S) == CHOOSE m \in S : \A k \in S : m <= k

\* C9: the bottom-out displacement is the x of the last local maximum of the
\* simplified acceleration curve, and the returned bottomOut is the first
\* sample of the downstroke, in sequence order, with x >= that displacement.
C9_BottomOutIsFirstSampleAtDisplacement ==
    pc = "done" =>
        LET peaks == PeakPositions(accel)
            at == {k \in 1..Len(downstroke) :
                      downstroke[k][1] >= bottomOutDisplacement}
        IN  /\ peaks # {} => bottomOutDisplacement = accel[SetMax(peaks)][1]
            /\ (metadata # TypeError /\ at # {}) =>
                   metadata.bottomOut = downstroke[SetMin(at)]

\* the acceleration has a local maximum past the start of the stroke and the
\* bottomOut sample is a later one than the first
C9_Witness ==
    /\ pc = "done"
    /\ metadata # TypeError
    /\ PeakPositions(accel) # {}
    /\ bottomOutDisplacement > 0
    /\ Len(downstroke) >= 3
    /\ metadata.bottomOut # downstroke[1]
    /\ metadata.bottomOut[1] >= bottomOutDisplacement

(***************************************************************************)
(* The last step of getMetadata (line 259 and the returned record) applied *)
(* to any three points: tactileMax, tactileMin and bottomOut with forces   *)
(* from ForceSamples (tenths of gf, on both sides of the 25 gf at which    *)
(* the threshold reaches its cap) at two displacements.                    *)
(***************************************************************************)
ForceSamples == {-20, 0, 10, 50, 100, 240, 250, 260, 300}

SamplePoints == {0, 100} \X ForceSamples

InitTactile ==
    /\ pc = "isTactile"
    /\ chosen \in SamplePoints \X SamplePoints \X SamplePoints
    /\ metadata = None
    /\ points = <<>>
    /\ strokes = None
    /\ maxima = None
    /\ minima = None
    /\ downstroke = <<>>
    /\ accel = None
    /\ bottomOutDisplacement = 0
    /\ code = None
    /\ rows = None
    /\ stroke = None
    /\ switches = None
    /\ transform = None
    /\ curveFiles = None
    /\ warned = None
    /\ moduleIds = None
    /\ undiscovered = None
    /\ moduleMeta = None
    /\ cursor = None
    /\ forceCurveMetadata = None
    /\ files = None
    /\ paths = None
    /\ cachedCurves = None
    /\ forceCurvePromise = None
    /\ forceCurves = None
    /\ renders = None
    /\ tolerance = None
    /\ twice = None

IsTactile ==
    /\ pc = "isTactile"
    /\ metadata' = [bottomOut |-> chosen[3],
                    tactileMax |-> chosen[1],
                    tactileMin |-> chosen[2],
                    isTactile |-> isTactileOf(chosen[1], chosen[2], chosen[3])]
    /\ pc' = "done"
    /\ UNCHANGED <<points, strokes, maxima, minima, downstroke, accel,
                   bottomOutDisplacement, chosen,
                   code,
                   rows,
                   stroke,
                   switches,
                   transform,
                   curveFiles,
                   warned,
                   moduleIds,
                   undiscovered,
                   moduleMeta,
                   cursor,
                   forceCurveMetadata,
                   files,
                   paths,
                   cachedCurves,
                   forceCurvePromise,
                   forceCurves,
                   renders,
                   tolerance,
                   twice>>

NextTactile == IsTactile

SpecTactile == InitTactile /\ [][NextTactile]_vars

\* C10: isTactile is true exactly when tactileMax.force - tactileMin.force is
\* at least min(0.2 * bottomOut.force, 5 gf), that is at least a fifth of the
\* bottomOut force or at least 5 gf (50 tenths); the displacements of the
\* three points play no part.
C10_IsTactileIffGapReachesThreshold ==
    pc = "done" =>
        LET gap == metadata.tactileMax[2] - metadata.tactileMin[2]
        IN  metadata.isTactile <=>
                (5 * gap >= metadata.bottomOut[2] \/ gap >= 50)

\* tactile by the cap alone: the gap is 5 gf and a fifth of the bottomOut
\* force is more
C10_Witness ==
    /\ pc = "done"
    /\ metadata.bottomOut[2] = 300
    /\ metadata.tactileMax[2] - metadata.tactileMin[2] = 50
    /\ metadata.isTactile

\* C11: in every returned record whose tactileMax and tactileMin are not the
\* (0, 0) fallback, tactileMax lies before bottomOut and tactileMin after
\* tactileMax: tactileMax.x < bottomOut.x and tactileMin.x > tactileMax.x.
C11_TactilePointsOrdered ==
    (/\ pc = "done"
     /\ metadata # TypeError
     /\ ~(metadata.tactileMax = ZERO /\ metadata.tactileMin = ZERO)) =>
        /\ metadata.tactileMax[1] < metadata.bottomOut[1]
        /\ metadata.tactileMin[1] > metadata.tactileMax[1]

\* a record with a tactile pair taken from the downstroke
C11_Witness ==
    /\ pc = "done"
    /\ metadata # TypeError
    /\ metadata.tactileMax # ZERO
    /\ metadata.tactileMin # ZERO
    /\ metadata.tactileMax[2] > metadata.tactileMin[2]
    /\ metadata.bottomOut # ZERO

\* the positions of the local maxima of d more than 0.5 mm before bod
QualifyingMaxima(d, bod) ==
    {j \in PeakPositions(d) : d[j][1] < bod - TACTILE_MIN_DISTANCE_FROM_BOTTOM_OUT}

\* C12: when the downstroke has no local maximum with
\* x < bottomOutDisplacement - 0.5, getMetadata returns a record with
\* tactileMax = (0, 0) and tactileMin = (0, 0).
C12_NoQualifyingMaximumGivesFallback ==
    (pc = "done" /\ QualifyingMaxima(downstroke, bottomOutDisplacement) = {}) =>
        /\ metadata # TypeError
        /\ metadata.tactileMax = ZERO
        /\ metadata.tactileMin = ZERO

\* the downstroke has a local maximum, but none far enough before the
\* bottom-out displacement, and a local minimum
C12_Witness ==
    /\ pc = "done"
    /\ PeakPositions(downstroke) # {}
    /\ findLocalMinima(downstroke) # <<>>
    /\ QualifyingMaxima(downstroke, bottomOutDisplacement) = {}
    /\ metadata # TypeError
    /\ metadata.tactileMax = ZERO

\* C13 as stated: when the acceleration curve of a non-empty downstroke has no
\* local maximum, getMetadata returns the fallback (0, 0) as bottomOut.
C13_NoAccelerationPeakGivesZeroBottomOut ==
    (pc = "done" /\ downstroke # <<>> /\ PeakPositions(accel) = {}) =>
        /\ metadata # TypeError
        /\ metadata.bottomOut = ZERO

(***************************************************************************)
(* parseCsv.  The text is taken as already cut into lines (split on the    *)
(* newline) and each line into its comma-separated fields, as csvParse     *)
(* does for unquoted text; a field is the sequence of its characters.  A   *)
(* parsed number is kept in hundredths (two decimals, further decimals     *)
(* are cut off); NaN is Undefined.  Exponents and "Infinity" are not       *)
(* modelled.                                                               *)
(***************************************************************************)
HEADER_LINES == 5

IsDigit(c) == c \in {"0", "1", "2", "3", "4", "5", "6", "7", "8", "9"}

DigitValue(c) ==
    CASE c = "0" -> 0 [] c = "1" -> 1 [] c = "2" -> 2 [] c = "3" -> 3 [] c = "4" -> 4
      [] c = "5" -> 5 [] c = "6" -> 6 [] c = "7" -> 7 [] c = "8" -> 8 [] c = "9" -> 9

\* the first position from i on that holds no digit (Len(cs) + 1 if none)
DigitsEnd(cs, i) ==
    CHOOSE j \in i..(Len(cs) + 1) :
        /\ \A k \in i..(j - 1) : IsDigit(cs[k])
        /\ (j = Len(cs) + 1 \/ ~IsDigit(cs[j]))

\* the number written by the digits cs[from .. to - 1]
RECURSIVE NatOf(_, _, _)
NatOf(cs, from, to) ==
    IF to <= from THEN 0
    ELSE 10 * NatOf(cs, from, to - 1) + DigitValue(cs[to - 1])

\* parseFloat(string): leading blanks are skipped, then the longest prefix
\* [sign] digits [. digits] is read and the rest ignored; NaN without a digit
parseFloat(cs) ==
    LET start == CHOOSE j \in 1..(Len(cs) + 1) :
                     /\ \A k \in 1..(j - 1) : cs[k] = " "
                     /\ (j = Len(cs) + 1 \/ cs[j] # " ")
        signed == start <= Len(cs) /\ cs[start] \in {"-", "+"}
        i0 == IF signed THEN start + 1 ELSE start
        i1 == DigitsEnd(cs, i0)
        hasDot == i1 <= Len(cs) /\ cs[i1] = "."
        f0 == IF hasDot THEN i1 + 1 ELSE i1
        f1 == IF hasDot THEN DigitsEnd(cs, f0) ELSE i1
        magnitude == 100 * NatOf(cs, i0, i1)
                     + (IF f1 - f0 >= 1 THEN 10 * DigitValue(cs[f0]) ELSE 0)
                     + (IF f1 - f0 >= 2 THEN DigitValue(cs[f0 + 1]) ELSE 0)
    IN  IF i1 = i0 /\ f1 = f0 THEN Undefined
        ELSE IF signed /\ cs[start] = "-" THEN -magnitude ELSE magnitude

Displacement == <<"D", "i", "s", "p", "l", "a", "c", "e", "m", "e", "n", "t">>

Force == <<"F", "o", "r", "c", "e">>

\* row[name] ?? '0' of a row object made by csvParse: the field under the last
\* column called name, "" when the row is too short, '0' without such a column
fieldOrZero(columns, row, name) ==
    LET at == {i \in 1..Len(columns) : columns[i] = name}
    IN  IF at = {} THEN <<"0">>
        ELSE LET i == CHOOSE i \in at : \A k \in at : k <= i
             IN  IF i <= Len(row) THEN row[i] ELSE <<>>

\* csvParse(code).map(...): the first line names the columns, every further
\* line is a row
parseCsvRows(text) ==
    LET lines == Slice(text, HEADER_LINES + 1, Len(text))
    IN  [k \in 1..(Len(lines) - 1) |->
            <<parseFloat(fieldOrZero(lines[1], lines[k + 1], Displacement)),
              parseFloat(fieldOrZero(lines[1], lines[k + 1], Force))>>]

\* variant: without the filter on the displacement
parseCsvUnfiltered(text) == parseCsvRows(text)

\* rows.filter((row) => row[0] >= 0); NaN >= 0 is false
parseCsv(text) ==
    SelectSeq(parseCsvRows(text), LAMBDA row : row[1] # Undefined /\ row[1] >= 0)

(***************************************************************************)
(* parseCsv applied to a file: a preamble of one line less, as many or one *)
(* line more than HEADER_LINES, a line of column names, and up to          *)
(* MaxCsvRows lines of one or two fields.                                  *)
(***************************************************************************)
MaxCsvRows == 2

\* "1.5", "-1", "x", " 2x"; a line of one field leaves the second column ""
Fields == {<<"1", ".", "5">>, <<"-", "1">>, <<"x">>, <<" ", "2", "x">>}

DataLines == {<<a>> : a \in Fields} \cup {<<a, b>> : a \in Fields, b \in Fields}

ColumnLines == {<<Displacement, Force>>, <<Force, Displacement>>, <<Displacement>>}

Preamble(n) == [k \in 1..n |-> <<<<"#">>>>]

CsvTexts ==
    {Preamble(n) \o <<c>> \o d :
        n \in (HEADER_LINES - 1)..(HEADER_LINES + 1),
        c \in ColumnLines,
        d \in SeqsUpTo(DataLines, MaxCsvRows)}

InitParse ==
    /\ pc = "parseCsv"
    /\ code \in CsvTexts
    /\ rows = None
    /\ points = <<>>
    /\ strokes = None
    /\ maxima = None
    /\ minima = None
    /\ downstroke = <<>>
    /\ accel = None
    /\ bottomOutDisplacement = 0
    /\ metadata = None
    /\ chosen = <<>>
    /\ stroke = None
    /\ switches = None
    /\ transform = None
    /\ curveFiles = None
    /\ warned = None
    /\ moduleIds = None
    /\ undiscovered = None
    /\ moduleMeta = None
    /\ cursor = None
    /\ forceCurveMetadata = None
    /\ files = None
    /\ paths = None
    /\ cachedCurves = None
    /\ forceCurvePromise = None
    /\ forceCurves = None
    /\ renders = None
    /\ tolerance = None
    /\ twice = None

ParseCsv ==
    /\ pc = "parseCsv"
    /\ rows' = parseCsv(code)
    /\ pc' = "done"
    /\ UNCHANGED <<points, strokes, maxima, minima, downstroke, accel,
                   bottomOutDisplacement, metadata, chosen, code,
                   stroke,
                   switches,
                   transform,
                   curveFiles,
                   warned,
                   moduleIds,
                   undiscovered,
                   moduleMeta,
                   cursor,
                   forceCurveMetadata,
                   files,
                   paths,
                   cachedCurves,
                   forceCurvePromise,
                   forceCurves,
                   renders,
                   tolerance,
                   twice>>

NextParse == ParseCsv

SpecParse == InitParse /\ [][NextParse]_vars

\* C14: no point returned by parseCsv has a displacement x < 0.
C14_NoNegativeDisplacement ==
    pc = "done" => \A k \in 1..Len(rows) : rows[k][1] >= 0

\* a row of displacement -1 was read and dropped, another row was kept
C14_Witness ==
    /\ pc = "done"
    /\ Len(rows) >= 1
    /\ \E k \in 1..Len(parseCsvRows(code)) : parseCsvRows(code)[k][1] = -100

\* a field read as a number, 0 when it cannot be parsed
numberOrZero(cs) == IF parseFloat(cs) = Undefined THEN 0 ELSE parseFloat(cs)

\* the points of C15: every row after the column names, with 0 for a missing
\* or unparsable field, without the rows of negative displacement
rowsWithZeroDefault(text) ==
    LET lines == Slice(text, HEADER_LINES + 1, Len(text))
        all == [k \in 1..(Len(lines) - 1) |->
                   <<numberOrZero(fieldOrZero(lines[1], lines[k + 1], Displacement)),
                     numberOrZero(fieldOrZero(lines[1], lines[k + 1], Force))>>]
    IN  SelectSeq(all, LAMBDA row : row[1] >= 0)

\* C15 as stated: a missing or unparsable displacement or force is replaced
\* by 0, the row stays in the output and no value is non-numeric.
C15_MalformedFieldsBecomeZero ==
    pc = "done" => rows = rowsWithZeroDefault(code)

(***************************************************************************)
(* The simplification load applies to each stroke,                         *)
(* dedupePoints(simplifyPoints(p)) with the default tolerance 0.01,        *)
(* applied to the point sequences of Rows: displacements in any order and  *)
(* repeated, 0.01 mm apart (the tolerance), forces 0.1 gf apart.           *)
(***************************************************************************)
simplifyStroke(p) == dedupePoints(simplifyPoints(p, 10))

InitSimplify ==
    /\ pc = "simplifyStroke"
    /\ points \in Rows
    /\ stroke = None
    /\ strokes = None
    /\ maxima = None
    /\ minima = None
    /\ downstroke = <<>>
    /\ accel = None
    /\ bottomOutDisplacement = 0
    /\ metadata = None
    /\ chosen = <<>>
    /\ code = None
    /\ rows = None
    /\ switches = None
    /\ transform = None
    /\ curveFiles = None
    /\ warned = None
    /\ moduleIds = None
    /\ undiscovered = None
    /\ moduleMeta = None
    /\ cursor = None
    /\ forceCurveMetadata = None
    /\ files = None
    /\ paths = None
    /\ cachedCurves = None
    /\ forceCurvePromise = None
    /\ forceCurves = None
    /\ renders = None
    /\ tolerance = None
    /\ twice = None

SimplifyStroke ==
    /\ pc = "simplifyStroke"
    /\ stroke' = simplifyStroke(points)
    /\ pc' = "done"
    /\ UNCHANGED <<points, strokes, maxima, minima, downstroke, accel,
                   bottomOutDisplacement, metadata, chosen, code, rows,
                   switches,
                   transform,
                   curveFiles,
                   warned,
                   moduleIds,
                   undiscovered,
                   moduleMeta,
                   cursor,
                   forceCurveMetadata,
                   files,
                   paths,
                   cachedCurves,
                   forceCurvePromise,
                   forceCurves,
                   renders,
                   tolerance,
                   twice>>

NextSimplify == SimplifyStroke

SpecSimplify == InitSimplify /\ [][NextSimplify]_vars

\* C16: dedupePoints(simplifyPoints(p)) has at most as many points as p.
C16_NoMorePointsThanInput ==
    pc = "done" => Len(stroke) <= Len(points)

\* both steps removed a point: a point on the line between its neighbours and
\* a repeated displacement
C16_Witness ==
    /\ pc = "done"
    /\ Len(points) = 4
    /\ Len(simplifyPoints(points, 10)) = 3
    /\ Len(stroke) = 2

\* the set of displacements of a point sequence
XSet(p) == {p[k][1] : k \in 1..Len(p)}

\* C17 as stated: for a non-empty stroke, monotonic in x or not, the least and
\* the greatest x of dedupePoints(simplifyPoints(p)) are those of p.
C17_RangeOfXPreserved ==
    (pc = "done" /\ points # <<>>) =>
        /\ stroke # <<>>
        /\ SetMin(XSet(stroke)) = SetMin(XSet(points))
        /\ SetMax(XSet(stroke)) = SetMax(XSet(points))

\* C18 as stated: for the downstroke (0,0), (0.5,30), (1.0,20), (1.5,25),
\* (2.0,80), (2.2,82), (2.4,78) getMetadata returns isTactile = true,
\* tactileMax = (0.5,30), tactileMin = (1.0,20) and bottomOut = (2.0,80).
C18_ScenarioResult ==
    (pc = "done" /\ downstroke = ScenarioDownstroke) =>
        metadata = [bottomOut |-> <<200, 800>>,
                    tactileMax |-> <<50, 300>>,
                    tactileMin |-> <<100, 200>>,
                    isTactile |-> TRUE]

(***************************************************************************)
(* normalizeKeys: the table of switches keyed by the slug of the switch    *)
(* name.  A string is the sequence of its characters.                      *)
(***************************************************************************)
\* String.prototype.replaceAll(text, replacement), scanning from position i:
\* the occurrences are replaced from left to right and do not overlap
RECURSIVE replaceAllFrom(_, _, _, _)
replaceAllFrom(s, i, text, replacement) ==
    LET hits == {j \in i..(Len(s) - Len(text) + 1) :
                    SubSeq(s, j, j + Len(text) - 1) = text}
    IN  IF hits = {} THEN SubSeq(s, i, Len(s))
        ELSE LET j == CHOOSE h \in hits : \A g \in hits : h <= g
             IN  SubSeq(s, i, j - 1) \o replacement
                 \o replaceAllFrom(s, j + Len(text), text, replacement)

replaceAll(s, text, replacement) == replaceAllFrom(s, 1, text, replacement)

RECURSIVE trimStart(_)
trimStart(s) ==
    IF Len(s) > 0 /\ s[1] = " " THEN trimStart(Tail(s)) ELSE s

RECURSIVE trimEnd(_)
trimEnd(s) ==
    IF Len(s) > 0 /\ s[Len(s)] = " " THEN trimEnd(SubSeq(s, 1, Len(s) - 1)) ELSE s

\* String.prototype.trim()
trim(s) == trimEnd(trimStart(s))

\* '../force-curves'
ForceCurvesDir ==
    <<".", ".", "/", "f", "o", "r", "c", "e", "-", "c", "u", "r", "v", "e", "s">>

\* 'Raw Data CSV.csv'
RawDataCsv ==
    <<"R", "a", "w", " ", "D", "a", "t", "a", " ", "C", "S", "V", ".", "c", "s", "v">>

\* the replacements of csvReplacements, applied in the order of its entries
normalizePath(p) ==
    trim(replaceAll(replaceAll(replaceAll(p, <<"_">>, <<" ">>),
                               ForceCurvesDir, <<>>),
                    RawDataCsv, <<>>))

\* the part of s after its last '/': s.split('/').pop()
RECURSIVE lastSegment(_, _)
lastSegment(s, i) ==
    IF i = 0 THEN s
    ELSE IF s[i] = "/" THEN SubSeq(s, i + 1, Len(s))
    ELSE lastSegment(s, i - 1)

getSwitchName(p) ==
    LET normal == normalizePath(p)
    IN  lastSegment(normal, Len(normal))

\* the characters slugify keeps as they are: \w, and the punctuation of its
\* default remove pattern that its character map leaves alone
SlugChars ==
    {"A", "B", "C", "c", "o", "n", "s", "t", "r", "u", "1", "2",
     "_", ".", "(", ")", "!", "~", "*", "+", ":", "@", "'"}

\* one character of the reduce in slugify: the character map (extended with
\* '/' -> '_'), the replacement character read as a space, and the removal
\* of everything the remove pattern matches
slugifyChar(c) ==
    IF c = "/" THEN <<"_">>
    ELSE IF c = "-" \/ c = " " THEN <<" ">>
    ELSE IF c \in SlugChars THEN <<c>>
    ELSE <<>>

RECURSIVE slugifyChars(_)
slugifyChars(s) ==
    IF Len(s) = 0 THEN <<>> ELSE slugifyChar(s[1]) \o slugifyChars(Tail(s))

\* slug.replace(/\s+/g, '-')
RECURSIVE replaceSpaces(_)
replaceSpaces(s) ==
    IF Len(s) = 0 THEN <<>>
    ELSE IF s[1] = " "
         THEN <<"-">> \o replaceSpaces(trimStart(s))
         ELSE <<s[1]>> \o replaceSpaces(Tail(s))

\* slugify(string) with the default options
slugify(s) == replaceSpaces(trim(slugifyChars(s)))

\* names every object inherits from Object.prototype (some of them)
Constructor == <<"c", "o", "n", "s", "t", "r", "u", "c", "t", "o", "r">>

ObjectPrototypeKeys == {Constructor}

\* the own entries of tbl under key k
ownEntries(tbl, k) == SelectSeq(tbl, LAMBDA e : e[1] = k)

\* whether result[key] is truthy: an own entry (every stored value is an
\* object or a function), or a property inherited from Object.prototype
hasTruthy(tbl, k) == Len(ownEntries(tbl, k)) > 0 \/ k \in ObjectPrototypeKeys

\* the two transforms the module passes: (entry) => entry.data, and the one
\* of getForceCurves that builds a CurveFile
applyTransform(kind, entry) ==
    IF kind = "data" THEN entry.data
    ELSE [key |-> entry.key, name |-> entry.name, metadata |-> entry.data]

\* the entry { key, name, data } made from switches[i]
switchEntry(sw, i) ==
    LET name == getSwitchName(normalizePath(sw[i][1]))
    IN  [key |-> slugify(name), name |-> name, data |-> sw[i][2]]

\* the loop of normalizeKeysImpl over the first i entries of switches
RECURSIVE normalizeKeysImpl(_, _, _)
normalizeKeysImpl(sw, kind, i) ==
    IF i = 0 THEN [result |-> <<>>, warned |-> <<>>]
    ELSE LET before == normalizeKeysImpl(sw, kind, i - 1)
             entry == switchEntry(sw, i)
         IN  IF hasTruthy(before.result, entry.key)
             THEN [result |-> before.result,
                   warned |-> Append(before.warned, entry.key)]
             ELSE [result |-> Append(before.result,
                                     <<entry.key, applyTransform(kind, entry)>>),
                   warned |-> before.warned]

(***************************************************************************)
(* SpecNormalize: normalizeKeys applied to an object whose keys are paths  *)
(* of .csv files, as import.meta.glob and 'force-curve-metadata' make them.*)
(***************************************************************************)
MaxEntries == 2

SwitchNames ==
    {<<"A">>, <<"A", "_", "B">>, <<"A", " ", "B">>, <<"A", "-", "B">>,
     <<"A", "#">>, Constructor}

SwitchDirs == {<<>>, <<"C", "/">>}

\* '../force-curves/<dir><name> Raw Data CSV.csv' (glob) and
\* '<dir><name> Raw Data CSV.csv' ('force-curve-metadata')
OriginalKeys ==
    {prefix \o dir \o name \o <<" ">> \o RawDataCsv :
        prefix \in {<<>>, ForceCurvesDir \o <<"/">>},
        dir \in SwitchDirs, name \in SwitchNames}

\* objects with up to MaxEntries distinct keys; the data of an entry is
\* identified by its position
SwitchObjects ==
    {[k \in 1..Len(ks) |-> <<ks[k], k>>] :
        ks \in {q \in SeqsUpTo(OriginalKeys, MaxEntries) :
                    \A a, b \in 1..Len(q) : a # b => q[a] # q[b]}}

InitNormalize ==
    /\ pc = "normalizeKeys"
    /\ switches \in SwitchObjects
    /\ transform \in {"data", "curveFile"}
    /\ curveFiles = None
    /\ warned = None
    /\ points = <<>>
    /\ strokes = None
    /\ maxima = None
    /\ minima = None
    /\ downstroke = <<>>
    /\ accel = None
    /\ bottomOutDisplacement = 0
    /\ metadata = None
    /\ chosen = <<>>
    /\ code = None
    /\ rows = None
    /\ stroke = None
    /\ moduleIds = None
    /\ undiscovered = None
    /\ moduleMeta = None
    /\ cursor = None
    /\ forceCurveMetadata = None
    /\ files = None
    /\ paths = None
    /\ cachedCurves = None
    /\ forceCurvePromise = None
    /\ forceCurves = None
    /\ renders = None
    /\ tolerance = None
    /\ twice = None

NormalizeKeys ==
    /\ pc = "normalizeKeys"
    /\ LET out == normalizeKeysImpl(switches, transform, Len(switches))
       IN  /\ curveFiles' = out.result
           /\ warned' = out.warned
    /\ pc' = "done"
    /\ UNCHANGED <<points, strokes, maxima, minima, downstroke, accel,
                   bottomOutDisplacement, metadata, chosen, code, rows, stroke,
                   switches, transform,
                   moduleIds,
                   undiscovered,
                   moduleMeta,
                   cursor,
                   forceCurveMetadata,
                   files,
                   paths,
                   cachedCurves,
                   forceCurvePromise,
                   forceCurves,
                   renders,
                   tolerance,
                   twice>>

NextNormalize == NormalizeKeys

SpecNormalize == InitNormalize /\ [][NextNormalize]_vars

\* the key switches[i] normalizes to
keyOf(i) == switchEntry(switches, i).key

\* the first entry of switches that normalizes to the key of switches[i]
firstWithKey(i) == CHOOSE j \in 1..i : keyOf(j) = keyOf(i) /\ \A h \in 1..(j - 1) : keyOf(h) # keyOf(i)

\* C19: after normalizeKeys has processed the entries, each key some entry
\* normalizes to maps to the transform of the first entry that produced it,
\* and the table has one entry per distinct key.
C19_FirstRegisteredWins ==
    pc = "done" =>
        /\ \A i \in 1..Len(switches) :
              ownEntries(curveFiles, keyOf(i)) =
                  <<<<keyOf(i),
                      applyTransform(transform, switchEntry(switches, firstWithKey(i)))>>>>
        /\ Len(curveFiles) = Cardinality({keyOf(i) : i \in 1..Len(switches)})

(***************************************************************************)
(* The build: rollup adds modules to the graph as it discovers them and    *)
(* loads each of them; the load of 'force-curve-metadata' walks the ids of *)
(* the graph.  A module id is the sequence of the parts of its path.       *)
(***************************************************************************)
\* path.extname(id)
extname(id) ==
    IF Len(id) > 0 /\ id[Len(id)] \in {".csv", ".ts", ".tsx"} THEN id[Len(id)] ELSE ""

\* id.includes(part)
includes(id, part) == \E k \in 1..Len(id) : id[k] = part

isRawDataCsv(id) ==
    /\ extname(id) = ".csv"
    /\ ~includes(id, "HighResolution")
    /\ ~includes(id, "HighResoultion")

\* path.resolve(__dirname, 'force-curves')
forceCurvesPath == "force-curves"

\* path.relative(forceCurvesPath, moduleId).replaceAll(path.sep, '/')
relativeKey(id) ==
    IF Len(id) > 1 /\ id[1] = forceCurvesPath /\ id[2] = "/"
    THEN SubSeq(id, 3, Len(id))
    ELSE <<"..", "/">> \o id

\* the file name of id: the parts after its last separator
RECURSIVE basename(_)
basename(id) ==
    IF includes(id, "/") THEN basename(Tail(id)) ELSE id

\* the patterns of import.meta.glob in the curve module: the .csv files
\* under force-curves whose file name holds neither spelling
globbed(id) ==
    /\ Len(id) > 1 /\ id[1] = forceCurvesPath /\ id[2] = "/"
    /\ id[Len(id)] = ".csv"
    /\ ~includes(basename(id), "HighResolution")
    /\ ~includes(basename(id), "HighResoultion")

MetadataModule == <<"force-curve-metadata">>

EntryModule == <<"src", "/", "main", ".tsx">>

\* the module that imports 'force-curve-metadata' and globs the .csv files
CurveModule == <<"src", "/", "curve", ".ts">>

\* the module whose imports bring id into the build
importerOf(id) == IF id = CurveModule THEN EntryModule ELSE CurveModule

\* the modules the entry leads to: the module that imports the table and
\* globs the .csv files, the .csv files, a high resolution .csv, and a .csv
\* in a directory whose name holds the pattern
BuildModules ==
    {MetadataModule,
     CurveModule,
     <<forceCurvesPath, "/", "a", ".csv">>,
     <<forceCurvesPath, "/", "b", ".csv">>,
     <<forceCurvesPath, "/", "a", "HighResolution", ".csv">>,
     <<forceCurvesPath, "/", "HighResolution", "/", "c", ".csv">>}

InGraph(id) == \E k \in 1..Len(moduleIds) : moduleIds[k] = id

\* the position of the next id after position from that passes isRawDataCsv
\* in the list ids, 0 when the iterator runs out first
nextRawDataCsv(ids, from) ==
    LET at == {k \in (from + 1)..Len(ids) : isRawDataCsv(ids[k])}
    IN  IF at = {} THEN 0 ELSE CHOOSE k \in at : \A h \in at : k <= h

InitBuild ==
    /\ pc = "build"
    /\ moduleIds = <<EntryModule>>
    /\ undiscovered \in {S \in SUBSET BuildModules :
                              MetadataModule \in S /\ CurveModule \in S}
    /\ moduleMeta = {}
    /\ cursor = 0
    /\ forceCurveMetadata = {}
    /\ points = <<>>
    /\ strokes = None
    /\ maxima = None
    /\ minima = None
    /\ downstroke = <<>>
    /\ accel = None
    /\ bottomOutDisplacement = 0
    /\ metadata = None
    /\ chosen = <<>>
    /\ code = None
    /\ rows = None
    /\ stroke = None
    /\ switches = None
    /\ transform = None
    /\ curveFiles = None
    /\ warned = None
    /\ files = None
    /\ paths = None
    /\ cachedCurves = None
    /\ forceCurvePromise = None
    /\ forceCurves = None
    /\ renders = None
    /\ tolerance = None
    /\ twice = None

\* rollup resolves an import of a module of the graph and adds the imported
\* module to the graph
Discover(id) ==
    /\ id \in undiscovered
    /\ InGraph(importerOf(id))
    /\ moduleIds' = Append(moduleIds, id)
    /\ undiscovered' = undiscovered \ {id}
    /\ UNCHANGED <<pc, moduleMeta, cursor, forceCurveMetadata,
                   points, strokes, maxima, minima, downstroke, accel,
                   bottomOutDisplacement, metadata, chosen, code, rows, stroke,
                   switches, transform, curveFiles, warned,
                   files,
                   paths,
                   cachedCurves,
                   forceCurvePromise,
                   forceCurves,
                   renders,
                   tolerance,
                   twice>>

\* forceCurvePlugin.load(id) of a module of the graph: null for an id that
\* is not a raw data .csv, else the module with meta.forceCurveMetadata
LoadCurve(id) ==
    /\ InGraph(id)
    /\ isRawDataCsv(id)
    /\ id \notin moduleMeta
    /\ moduleMeta' = moduleMeta \cup {id}
    /\ UNCHANGED <<pc, moduleIds, undiscovered, cursor, forceCurveMetadata,
                   points, strokes, maxima, minima, downstroke, accel,
                   bottomOutDisplacement, metadata, chosen, code, rows, stroke,
                   switches, transform, curveFiles, warned,
                   files,
                   paths,
                   cachedCurves,
                   forceCurvePromise,
                   forceCurves,
                   renders,
                   tolerance,
                   twice>>

\* forceCurveMetadataPlugin.load('force-curve-metadata') up to its first
\* await: the ids that are not raw data .csv are skipped without a pause
LoadMetadata ==
    /\ pc = "build"
    /\ InGraph(MetadataModule)
    /\ forceCurveMetadata' = {}
    /\ cursor' = nextRawDataCsv(moduleIds, 0)
    /\ pc' = IF cursor' = 0 THEN "done" ELSE "awaitLoad"
    /\ UNCHANGED <<moduleIds, undiscovered, moduleMeta,
                   points, strokes, maxima, minima, downstroke, accel,
                   bottomOutDisplacement, metadata, chosen, code, rows, stroke,
                   switches, transform, curveFiles, warned,
                   files,
                   paths,
                   cachedCurves,
                   forceCurvePromise,
                   forceCurves,
                   renders,
                   tolerance,
                   twice>>

\* await this.load({ id: moduleId }) returns: the entry is stored and the
\* iterator, which sees the ids added meanwhile, moves to the next await
ResumeLoadMetadata ==
    /\ pc = "awaitLoad"
    /\ moduleIds[cursor] \in moduleMeta
    /\ forceCurveMetadata' = forceCurveMetadata \cup {relativeKey(moduleIds[cursor])}
    /\ cursor' = nextRawDataCsv(moduleIds, cursor)
    /\ pc' = IF cursor' = 0 THEN "done" ELSE "awaitLoad"
    /\ UNCHANGED <<moduleIds, undiscovered, moduleMeta,
                   points, strokes, maxima, minima, downstroke, accel,
                   bottomOutDisplacement, metadata, chosen, code, rows, stroke,
                   switches, transform, curveFiles, warned,
                   files,
                   paths,
                   cachedCurves,
                   forceCurvePromise,
                   forceCurves,
                   renders,
                   tolerance,
                   twice>>

NextBuild ==
    \/ \E id \in BuildModules : Discover(id)
    \/ \E id \in BuildModules : LoadCurve(id)
    \/ LoadMetadata
    \/ ResumeLoadMetadata

SpecBuild == InitBuild /\ [][NextBuild]_vars

\* the build has discovered and loaded every module, the table included
BuildFinished ==
    /\ pc = "done"
    /\ undiscovered = {}
    /\ \A k \in 1..Len(moduleIds) : isRawDataCsv(moduleIds[k]) => moduleIds[k] \in moduleMeta

\* C20: when the build is over, the table of 'force-curve-metadata' has an
\* entry for every raw data .csv that forceCurvePlugin processed, whatever
\* the order of discovery and loading.
C20_TableIsComplete ==
    BuildFinished =>
        forceCurveMetadata = {relativeKey(id) : id \in moduleMeta}

(***************************************************************************)
(* The page at run time: the two tables of the curve module, and the form  *)
(* that reads the keys of the URL and fetches their curves on each render. *)
(***************************************************************************)
\* the variables of the build and of the functions it applies
buildTimeVars ==
    <<points, strokes, maxima, minima, downstroke, accel,
      bottomOutDisplacement, metadata, chosen, code, rows, stroke,
      transform, warned, moduleIds, undiscovered, moduleMeta, cursor,
      forceCurveMetadata, tolerance, twice>>

\* the .csv files of the build, as paths relative to the force-curves
\* directory without the ' Raw Data CSV.csv' ending
RuntimeFiles == {<<"A">>, <<"C", "/", "A">>, <<"A", "_", "B">>}

\* the orders in which the files of the set S can be enumerated
Orders(S) ==
    {q \in SeqsUpTo(S, Cardinality(S)) :
        Len(q) = Cardinality(S) /\ \A a, b \in 1..Len(q) : a # b => q[a] # q[b]}

\* the default export of 'force-curve-metadata' for the files of q
metadataObject(q) ==
    [k \in 1..Len(q) |-> <<q[k] \o <<" ">> \o RawDataCsv, [metadataOf |-> q[k]]>>]

\* the object import.meta.glob returns for the files of q: a loader per file
globObject(q) ==
    [k \in 1..Len(q) |->
        <<ForceCurvesDir \o <<"/">> \o q[k] \o <<" ">> \o RawDataCsv, [loads |-> q[k]]>>]

\* the one-argument overload of normalizeKeys, and the call of getForceCurves
normalizeKeys(sw, kind) == normalizeKeysImpl(sw, kind, Len(sw)).result

\* tbl[k] of a plain object: the own entry, else what Object.prototype
\* holds under k, else undefined
lookup(tbl, k) ==
    IF Len(ownEntries(tbl, k)) > 0 THEN ownEntries(tbl, k)[1][2]
    ELSE IF k \in ObjectPrototypeKeys THEN [inherited |-> k]
    ELSE None

isDefined(obj) == obj # None

\* the text of undefined, as a property name and in a message
UndefinedKey == <<"u", "n", "d", "e", "f", "i", "n", "e", "d">>

\* loadForceCurve(curve): how the promise it returns settles, given the
\* table of loaders
loadForceCurve(curve, loaders) ==
    LET key == IF "key" \in DOMAIN curve THEN curve.key ELSE UndefinedKey
        curveGetter == lookup(loaders, key)
    IN  IF curveGetter = None
        THEN [status |-> "rejected", reason |-> <<"Invalid curve file", key>>]
        ELSE IF "loads" \notin DOMAIN curveGetter
        THEN [status |-> "rejected", reason |-> <<"TypeError">>]
        ELSE [status |-> "fulfilled",
              value |-> [name |-> curve.name, points |-> curveGetter.loads]]

\* Promise.all(promises): the first rejection, else the list of the values
promiseAll(settled) ==
    LET bad == SelectSeq(settled, LAMBDA r : r.status = "rejected")
    IN  IF Len(bad) > 0 THEN bad[1]
        ELSE [status |-> "fulfilled",
              value |-> [k \in 1..Len(settled) |-> settled[k].value]]

\* paths.map((p) => curves[p]).filter(isDefined)
requestedCurves(items, curves) ==
    SelectSeq([k \in 1..Len(items) |-> lookup(curves, items[k])], isDefined)

\* files ? files.split(',').map((s) => s.trim()) : []
\* (f is the list of the parts between commas: none when the URL has no
\* files parameter, one empty part for the empty string)
urlCurves(f) ==
    IF f = <<>> \/ f = <<<<>>>> THEN <<>> ELSE [k \in 1..Len(f) |-> trim(f[k])]

MaxRenders == 2

MaxKeys == 2

\* the parts of the files parameter a URL can hold
UrlParts == {<<"A">>, <<" ", "A">>, <<"A", "-", "B">>, <<"x">>, Constructor}

UrlFiles == SeqsUpTo(UrlParts, MaxKeys)

InitFetch ==
    /\ pc = "page"
    /\ \E S \in (SUBSET RuntimeFiles) \ {{}} :
          /\ switches \in {metadataObject(q) : q \in Orders(S)}
          /\ forceCurves \in {normalizeKeys(globObject(q), "data") : q \in Orders(S)}
    /\ curveFiles = None
    /\ files = <<>>
    /\ paths = None
    /\ cachedCurves = None
    /\ forceCurvePromise = None
    /\ renders = 0
    /\ points = <<>>
    /\ strokes = None
    /\ maxima = None
    /\ minima = None
    /\ downstroke = <<>>
    /\ accel = None
    /\ bottomOutDisplacement = 0
    /\ metadata = None
    /\ chosen = <<>>
    /\ code = None
    /\ rows = None
    /\ stroke = None
    /\ transform = None
    /\ warned = None
    /\ moduleIds = None
    /\ undiscovered = None
    /\ moduleMeta = None
    /\ cursor = None
    /\ forceCurveMetadata = None
    /\ tolerance = None
    /\ twice = None

\* navigate('/' + curves.join(',')), or the user opening another URL
Navigate(f) ==
    /\ pc = "page"
    /\ f # files
    /\ files' = f
    /\ UNCHANGED <<pc, switches, forceCurves, curveFiles, paths, cachedCurves,
                   forceCurvePromise, renders,
                   tolerance,
                   twice>>
    /\ UNCHANGED buildTimeVars

\* a render of the form: useUrlCurves makes a new array of the keys of the
\* URL and fetchForceCurves is called with it.  A build that memoizes the
\* body of the hook on `files` (babel-plugin-react-compiler) hands over the
\* array of the render before when `files` is the same string and the form
\* has stayed mounted; `from` is the string the array was made from.
Render ==
    /\ pc = "page"
    /\ renders < MaxRenders
    /\ renders' = renders + 1
    /\ \E reuse \in BOOLEAN :
          /\ reuse => (renders > 0 /\ paths.from = files)
          /\ paths' = IF reuse THEN paths
                      ELSE [ref |-> renders + 1, items |-> urlCurves(files),
                            from |-> files]
    /\ curveFiles' = IF curveFiles = None
                     THEN [table |-> normalizeKeys(switches, "curveFile")]
                     ELSE curveFiles
    /\ IF forceCurvePromise = None \/ paths'.ref # cachedCurves.ref
       THEN /\ forceCurvePromise' =
                   [id |-> renders + 1,
                    outcome |->
                        LET asked == requestedCurves(paths'.items, curveFiles'.table)
                        IN  promiseAll([k \in 1..Len(asked) |->
                                           loadForceCurve(asked[k], forceCurves)])]
            /\ cachedCurves' = paths'
       ELSE UNCHANGED <<forceCurvePromise, cachedCurves,
                   tolerance,
                   twice>>
    /\ UNCHANGED <<pc, switches, forceCurves, files,
                   tolerance,
                   twice>>
    /\ UNCHANGED buildTimeVars

NextFetch ==
    \/ \E f \in UrlFiles : Navigate(f)
    \/ Render

SpecFetch == InitFetch /\ [][NextFetch]_vars

\* C21: when the list handed to fetchForceCurves names a key the registry
\* has no record for, the promise it returns is rejected (the request does
\* not complete as if the key had not been asked for).
C21_UnknownKeyIsReported ==
    (/\ pc = "page" /\ renders > 0
     /\ \E k \in 1..Len(paths.items) : ~isDefined(lookup(curveFiles.table, paths.items[k]))) =>
        forceCurvePromise.outcome.status = "rejected"

\* the file name of id holds one of the two spellings of the pattern
isHighResolution(id) ==
    includes(basename(id), "HighResolution") \/ includes(basename(id), "HighResoultion")

\* C22: a .csv file whose name matches the high resolution pattern is never
\* processed by forceCurvePlugin.load, has no entry in the table and no
\* loader; every other .csv file of the build has a loader and is processed
\* by the time the build is over.
C22_OnlyHighResolutionExcluded ==
    pc \in {"build", "awaitLoad", "done"} =>
        \A k \in 1..Len(moduleIds) :
            LET id == moduleIds[k]
            IN  extname(id) = ".csv" =>
                    IF isHighResolution(id)
                    THEN /\ id \notin moduleMeta
                         /\ relativeKey(id) \notin forceCurveMetadata
                         /\ ~globbed(id)
                    ELSE /\ globbed(id)
                         /\ (pc = "done" /\ undiscovered = {} /\ ~ENABLED LoadCurve(id))
                                => id \in moduleMeta

\* C23: the split index of partitionStrokes is the smallest index whose
\* displacement is the greatest of the sequence, so every point of the
\* downstroke has an x strictly below the x of the first upstroke point.
C23_SplitAtFirstMaximum ==
    (pc = "done" /\ points # <<>>) =>
        /\ \A k \in 1..Len(points) : points[k][1] <= points[Len(strokes[1]) + 1][1]
        /\ \A k \in 1..Len(strokes[1]) :
              points[k][1] < points[Len(strokes[1]) + 1][1]
        /\ \A k \in 1..Len(strokes[1]) : strokes[1][k][1] < strokes[2][1][1]

\* the greatest displacement occurs at the second and at the last sample
C23_Witness ==
    /\ pc = "done"
    /\ Xs(points) = <<0, 2, 1, 2>>
    /\ Xs(strokes[1]) = <<0>>
    /\ Xs(strokes[2]) = <<2, 1, 2>>

(***************************************************************************)
(* SpecPoints: simplifyPoints with each tolerance the program uses, and    *)
(* dedupePoints, applied to a point sequence and then to their own result. *)
(***************************************************************************)
\* 0.01, 0.1 and 0.2 in thousandths
Tolerances == {10, 100, 200}

\* forces of 0 and 0.3 gf: a point can be farther than 0.2 from a chord
PointInputs == SeqsUpTo((0..MaxX) \X {0, 3}, MaxRows)

InitPoints ==
    /\ pc = "points"
    /\ points \in PointInputs
    /\ tolerance \in Tolerances
    /\ stroke = None
    /\ twice = None
    /\ strokes = None
    /\ maxima = None
    /\ minima = None
    /\ downstroke = <<>>
    /\ accel = None
    /\ bottomOutDisplacement = 0
    /\ metadata = None
    /\ chosen = <<>>
    /\ code = None
    /\ rows = None
    /\ switches = None
    /\ transform = None
    /\ curveFiles = None
    /\ warned = None
    /\ moduleIds = None
    /\ undiscovered = None
    /\ moduleMeta = None
    /\ cursor = None
    /\ forceCurveMetadata = None
    /\ files = None
    /\ paths = None
    /\ cachedCurves = None
    /\ forceCurvePromise = None
    /\ forceCurves = None
    /\ renders = None

\* the variables the operations on points leave alone
otherVars ==
    <<points, tolerance, strokes, maxima, minima, downstroke, accel,
      bottomOutDisplacement, metadata, chosen, code, rows,
      switches, transform, curveFiles, warned, moduleIds, undiscovered,
      moduleMeta, cursor, forceCurveMetadata, files, paths, cachedCurves,
      forceCurvePromise, forceCurves, renders>>

SimplifyPoints ==
    /\ pc = "points"
    /\ stroke' = simplifyPoints(points, tolerance)
    /\ pc' = "simplified"
    /\ UNCHANGED twice
    /\ UNCHANGED otherVars

SimplifyPointsAgain ==
    /\ pc = "simplified"
    /\ twice' = simplifyPoints(stroke, tolerance)
    /\ pc' = "simplifiedTwice"
    /\ UNCHANGED stroke
    /\ UNCHANGED otherVars

DedupePoints ==
    /\ pc = "points"
    /\ stroke' = dedupePoints(points)
    /\ pc' = "deduped"
    /\ UNCHANGED twice
    /\ UNCHANGED otherVars

DedupePointsAgain ==
    /\ pc = "deduped"
    /\ twice' = dedupePoints(stroke)
    /\ pc' = "dedupedTwice"
    /\ UNCHANGED stroke
    /\ UNCHANGED otherVars

NextPoints ==
    \/ SimplifyPoints
    \/ SimplifyPointsAgain
    \/ DedupePoints
    \/ DedupePointsAgain

SpecPoints == InitPoints /\ [][NextPoints]_vars

\* s is p with some of its points left out, the others in their order
RECURSIVE IsSubsequence(_, _)
IsSubsequence(s, p) ==
    IF Len(s) = 0 THEN TRUE
    ELSE IF Len(p) = 0 THEN FALSE
    ELSE IF s[1] = p[1] THEN IsSubsequence(Tail(s), Tail(p))
    ELSE IsSubsequence(s, Tail(p))

\* C24: for a non-empty input and each tolerance used, simplifyPoints
\* returns a subsequence of its input, in the input's order, that starts
\* with the input's first point and ends with its last point.
C24_SubsequenceWithEndpoints ==
    (pc = "simplified" /\ Len(points) > 0) =>
        /\ IsSubsequence(stroke, points)
        /\ Len(stroke) > 0
        /\ stroke[1] = points[1]
        /\ stroke[Len(stroke)] = points[Len(points)]

\* with tolerance 0.2, the point 0.3 away from the chord is kept and the
\* point on the chord is dropped
C24_Witness ==
    /\ pc = "simplified"
    /\ tolerance = 200
    /\ points = <<<<0, 0>>, <<1, 3>>, <<2, 0>>, <<2, 0>>>>
    /\ stroke = <<<<0, 0>>, <<1, 3>>, <<2, 0>>>>

\* C25: dedupePoints returns one point per distinct x of its input, in the
\* order in which each x first occurs, with the mean (rounded down to the
\* unit of the forces) of the y of every input point of that x, adjacent or
\* not; no two points of the result share an x.
C25_OnePointPerXWithMean ==
    pc = "deduped" =>
        /\ \A a, b \in 1..Len(stroke) : a # b => stroke[a][1] # stroke[b][1]
        /\ {stroke[k][1] : k \in 1..Len(stroke)} = {points[k][1] : k \in 1..Len(points)}
        /\ \A a, b \in 1..Len(stroke) :
              a < b =>
                  \E i \in 1..Len(points) :
                      /\ points[i][1] = stroke[a][1]
                      /\ \A j \in 1..i : points[j][1] # stroke[b][1]
        /\ \A k \in 1..Len(stroke) :
              LET at == {i \in 1..Len(points) : points[i][1] = stroke[k][1]}
                  total == SumSeq([i \in 1..Len(points) |->
                                      IF i \in at THEN points[i][2] ELSE 0])
              IN  /\ Cardinality(at) * stroke[k][2] <= total
                  /\ total < Cardinality(at) * (stroke[k][2] + 1)

\* two points of x = 0 with a point of x = 1 between them are merged
C25_Witness ==
    /\ pc = "deduped"
    /\ points = <<<<0, 3>>, <<1, 0>>, <<0, 3>>, <<1, 3>>>>
    /\ stroke = <<<<0, 3>>, <<1, 1>>>>

\* C26: both operations are idempotent: dedupePoints applied to its own
\* result returns that result, and so does simplifyPoints with the same
\* tolerance.
C26_Idempotent ==
    /\ pc = "dedupedTwice" => twice = stroke
    /\ pc = "simplifiedTwice" => twice = stroke

\* a second simplifyPoints with tolerance 0.1 on a result that kept a point
\* between the ends and had dropped another
C26_Witness ==
    /\ pc = "simplifiedTwice"
    /\ tolerance = 100
    /\ points = <<<<0, 0>>, <<1, 3>>, <<2, 0>>, <<2, 0>>>>
    /\ stroke = <<<<0, 0>>, <<1, 3>>, <<2, 0>>>>
    /\ twice = stroke

(***************************************************************************)
(* SpecQuantize: quantize with the step getMetadata passes, on points      *)
(* whose x are not all multiples of the step.  One unit of x is a quarter  *)
(* of the step here.                                                       *)
(***************************************************************************)
\* the step 0.01 in units of x
QuantizeStep == 4

MaxGridX == 9

MaxGridPoints == 3

\* at least 2 points of strictly increasing x
QuantizeInputs ==
    {q \in SeqsUpTo((0..MaxGridX) \X {0, 1, 4}, MaxGridPoints) :
        /\ Len(q) >= 2
        /\ \A k \in 1..(Len(q) - 1) : q[k][1] < q[k + 1][1]}

InitQuantize ==
    /\ pc = "quantize"
    /\ points \in QuantizeInputs
    /\ stroke = None
    /\ tolerance = None
    /\ twice = None
    /\ strokes = None
    /\ maxima = None
    /\ minima = None
    /\ downstroke = <<>>
    /\ accel = None
    /\ bottomOutDisplacement = 0
    /\ metadata = None
    /\ chosen = <<>>
    /\ code = None
    /\ rows = None
    /\ switches = None
    /\ transform = None
    /\ curveFiles = None
    /\ warned = None
    /\ moduleIds = None
    /\ undiscovered = None
    /\ moduleMeta = None
    /\ cursor = None
    /\ forceCurveMetadata = None
    /\ files = None
    /\ paths = None
    /\ cachedCurves = None
    /\ forceCurvePromise = None
    /\ forceCurves = None
    /\ renders = None

Quantize ==
    /\ pc = "quantize"
    /\ stroke' = quantize(points, QuantizeStep)
    /\ pc' = "quantized"
    /\ UNCHANGED twice
    /\ UNCHANGED otherVars

NextQuantize == Quantize

SpecQuantize == InitQuantize /\ [][NextQuantize]_vars

\* C27: for at least 2 points of increasing x, the result of quantize lies
\* on the uniform grid that starts at the first x, every x of it is within
\* [first x, last x], and every force is the linear interpolation between
\* the two input points around that x.
C27_GridWithinRangeInterpolated ==
    pc = "quantized" =>
        \A k \in 1..Len(stroke) :
            LET x == stroke[k][1]
            IN  /\ x = points[1][1] + (k - 1) * QuantizeStep
                /\ points[1][1] <= x
                /\ x <= points[Len(points)][1]
                /\ \E i \in 1..(Len(points) - 1) :
                      /\ points[i][1] <= x
                      /\ x <= points[i + 1][1]
                      /\ stroke[k][2] * (points[i + 1][1] - points[i][1]) =
                            forceScale(points)
                            * (points[i][2] * (points[i + 1][1] - points[i][1])
                               + (points[i + 1][2] - points[i][2]) * (x - points[i][1]))

(***************************************************************************)
(* SpecDerivative: getDerivative applied to points one unit of x apart, as *)
(* quantize hands them over, and then to its own result as getMetadata     *)
(* does to obtain the acceleration.                                        *)
(***************************************************************************)
InitDerivative ==
    /\ pc = "getDerivative"
    /\ points \in {q \in SampleSeqs : Len(q) >= 1}
    /\ stroke = None
    /\ tolerance = None
    /\ twice = None
    /\ strokes = None
    /\ maxima = None
    /\ minima = None
    /\ downstroke = <<>>
    /\ accel = None
    /\ bottomOutDisplacement = 0
    /\ metadata = None
    /\ chosen = <<>>
    /\ code = None
    /\ rows = None
    /\ switches = None
    /\ transform = None
    /\ curveFiles = None
    /\ warned = None
    /\ moduleIds = None
    /\ undiscovered = None
    /\ moduleMeta = None
    /\ cursor = None
    /\ forceCurveMetadata = None
    /\ files = None
    /\ paths = None
    /\ cachedCurves = None
    /\ forceCurvePromise = None
    /\ forceCurves = None
    /\ renders = None

\* const velocity = getDerivative(simplified)
GetDerivative ==
    /\ pc = "getDerivative"
    /\ stroke' = getDerivative(points)
    /\ pc' = "velocity"
    /\ UNCHANGED twice
    /\ UNCHANGED otherVars

\* getDerivative(velocity)
GetDerivativeAgain ==
    /\ pc = "velocity"
    /\ twice' = getDerivative(stroke)
    /\ pc' = "acceleration"
    /\ UNCHANGED stroke
    /\ UNCHANGED otherVars

NextDerivative ==
    \/ GetDerivative
    \/ GetDerivativeAgain

SpecDerivative == InitDerivative /\ [][NextDerivative]_vars

\* r has one point per consecutive pair of q, at the x of the pair's left
\* point, and every value of r is defined
IsDerivativeOf(r, q) ==
    /\ Len(r) = Len(q) - 1
    /\ \A k \in 1..Len(r) : r[k][1] = q[k][1] /\ r[k][2] # Undefined

\* C28: for n >= 1 points of distinct x, getDerivative returns n - 1 points,
\* each at the x of the left point of a pair and with a defined value, also
\* when it is applied to its own result.
C28_OnePointPerPair ==
    /\ pc = "velocity" => IsDerivativeOf(stroke, points)
    /\ pc = "acceleration" => IsDerivativeOf(twice, stroke)

\* C29: a call of fetchForceCurves whose list holds the same keys as the
\* list of the call before it returns the promise of that call: no new
\* promise is created while the keys of the URL stay the same.
C29_SameKeysSamePromise ==
    [][(/\ renders > 0
        /\ renders' = renders + 1
        /\ paths'.items = paths.items) => forceCurvePromise' = forceCurvePromise]_vars

\* the same, for two URLs that differ as strings and hold the same keys
C29_SameKeysOfOtherUrl ==
    [][(/\ renders > 0
        /\ renders' = renders + 1
        /\ paths'.from # paths.from
        /\ paths'.items = paths.items) => forceCurvePromise' = forceCurvePromise]_vars

\* C30: once getForceCurves has built the registry, every key of it has a
\* loader in forceCurves, and that loader loads the file whose metadata the
\* registry holds under the key.
C30_TablesConsistent ==
    (pc = "page" /\ renders > 0) =>
        \A k \in 1..Len(curveFiles.table) :
            LET key == curveFiles.table[k][1]
                curve == curveFiles.table[k][2]
            IN  /\ Len(ownEntries(forceCurves, key)) = 1
                /\ ownEntries(forceCurves, key)[1][2].loads = curve.metadata.metadataOf
====
